---- MODULE Spec2Model ----
(***************************************************************************)
(* State synchronization engine of src/src/App.tsx: the React component    *)
(* App holds the session's repair orders, master inventory and inventory   *)
(* alerts, mutates them on behalf of the role pages and mirrors the        *)
(* mutations to the remote store (supabase) unless the session runs in     *)
(* simulation (demo) mode.                                                 *)
(*                                                                         *)
(* React state is modelled as it behaves: the useState cells hold the      *)
(* committed values, and every handler closes over the values of the last  *)
(* render (the variable view).  A handler that reads masterInventory or    *)
(* isDemoMode reads the render's copy, a functional updater                *)
(* (setX(prev => ...)) reads the cell.  Render commits a new snapshot.     *)
(* A click handled by App itself (role bar, launch button) ends with the   *)
(* render React makes for it; the entry points handed to the pages may be  *)
(* called several times by one event of a page before React renders.       *)
(***************************************************************************)
EXTENDS Integers, Sequences, FiniteSets, TLC

(* ------------------------------------------------------------------ *)
(* Bounds of the model                                                 *)
(* ------------------------------------------------------------------ *)

\* Mutation calls (addRO, updateRO, updateInventory, addInventoryAlert,
\* setInventory) made in one session.
MaxOps == 3

\* The largest reading of Date.now(), in milliseconds since the session started.
MaxClock == 1

\* Mirrored mutation calls made in one session whose writes are followed to the
\* remote store.
MaxSyncOps == 2

(* ------------------------------------------------------------------ *)
(* Values                                                              *)
(* ------------------------------------------------------------------ *)

NULL == "null"
Absent == "undefined"
SUPABASE_UNCONFIGURED == "SUPABASE_UNCONFIGURED"
UplinkFailed == "Uplink to Command Database failed."

\* The roles whose pages differ in the mutation entry points they receive: the
\* service manager's page gets addRO and updateRO, the parts manager's updateRO,
\* updateInventory and addInventoryAlert, the inventory manager's the raw
\* setMasterInventory.  The technician's and the billing page get updateRO
\* alone, the remaining pages get no entry point.
SERVICE_MANAGER == "SERVICE_MANAGER"
PARTS_MANAGER == "PARTS_MANAGER"
INVENTORY_MANAGER == "INVENTORY_MANAGER"
UserRole == {SERVICE_MANAGER, PARTS_MANAGER, INVENTORY_MANAGER}

Part(pn, desc, q, rp) ==
  [partNumber |-> pn, description |-> desc, quantityOnHand |-> q, reorderPoint |-> rp]

Order(id, st, tech) == [id |-> id, status |-> st, technicianId |-> tech]

\* Rows of the remote store use the separated-word naming.
PartRow(pn, desc, q, rp) ==
  [part_number |-> pn, description |-> desc, quantity_on_hand |-> q, reorder_point |-> rp]

OrderRow(id, st, tech) == [id |-> id, status |-> st, technician_id |-> tech]

\* Arguments the pages pass.
PartNumbers == {"ENG-001", "PRP-002", "UNKNOWN-PART"}
Deltas == {-1, 1}
Reasons == {"install"}
OrderIds == {"RO-1"}

OrderInputs ==
  { Order("RO-1", "NEW", Absent),
    Order("RO-1", "AUTHORIZED", Absent),
    Order("RO-1", "ACTIVE", "T1"),
    Order("RO-2", "READY_FOR_TECH", "T1") }

\* Lists the inventory page stores through its setInventory prop.
InventoryInputs ==
  { << Part("ENG-001", "Engine gasket", 5, 5) >>,
    << Part("ENG-001", "Engine gasket", 10, 5), Part("PRP-002", "Propeller", 1, 0) >> }

\* What the remote store holds when the session starts.
SeedOrders == << OrderRow("RO-1", "NEW", Absent) >>
SeedInventory ==
  << PartRow("ENG-001", "Engine gasket", 6, 5), PartRow("PRP-002", "Propeller", 1, 0) >>

\* Outcomes of a bulk read: rows, an error with a message, an error without one.
ReadOutcomes == {"ok", "error", "error-no-message"}

(* ------------------------------------------------------------------ *)
(* State                                                               *)
(* ------------------------------------------------------------------ *)

VARIABLES
  role,             \* useState cells of App
  repairOrders,
  masterInventory,
  inventoryAlerts,
  isDemoMode,
  isLoading,
  error,
  view,             \* the values the handlers of the last render close over
  effectDep,        \* isDemoMode of the last run of the [isDemoMode] effect
  pc,               \* position of fetchInitialData
  isSupabaseConfigured,
  supabase,         \* TRUE iff the client object is not null
  now,              \* the last reading of Date.now()
  remoteCalls,      \* calls issued to the remote store adapter, oldest first
  nOps,             \* mutation calls made so far
  lastOp,           \* the last mutation call and its arguments
  ledger,           \* per part: the stored quantity plus every delta since
  remote,           \* the rows the remote store holds, per table
  outstanding,      \* places in remoteCalls of the writes that have not settled
  failedWrites      \* places in remoteCalls of the writes that failed

vars ==
  << role, repairOrders, masterInventory, inventoryAlerts, isDemoMode, isLoading,
     error, view, effectDep, pc, isSupabaseConfigured, supabase, now, remoteCalls,
     nOps, lastOp, ledger, remote, outstanding, failedWrites >>

\* The remote store and the writes travelling to it.
store == << remote, outstanding, failedWrites >>

cells == << role, repairOrders, masterInventory, inventoryAlerts, isDemoMode, isLoading, error >>

\* What a render of App closes over.
Snapshot ==
  [ role |-> role, masterInventory |-> masterInventory, isDemoMode |-> isDemoMode,
    isLoading |-> isLoading, error |-> error ]

(* ------------------------------------------------------------------ *)
(* Pure helpers                                                        *)
(* ------------------------------------------------------------------ *)

\* Field-name translation of the remote store adapter, per record type.
toCamelOrder(row) == Order(row.id, row.status, row.technician_id)
toCamelPart(row) ==
  Part(row.part_number, row.description, row.quantity_on_hand, row.reorder_point)
toSnakeOrder(ro) == OrderRow(ro.id, ro.status, ro.technicianId)

\* masterInventory.find(p => p.partNumber === partNumber) finds something.
PartFound(inventory, partNumber) ==
  \E i \in 1..Len(inventory) : inventory[i].partNumber = partNumber

\* masterInventory.find(p => p.partNumber === partNumber): the first match.
FindPart(inventory, partNumber) ==
  inventory[CHOOSE i \in 1..Len(inventory) :
              /\ inventory[i].partNumber = partNumber
              /\ \A j \in 1..(i - 1) : inventory[j].partNumber # partNumber]

\* Variant of MapQuantity without the test of the part number: every part
\* gets the new quantity.
MapQuantityOfEveryPart(prev, partNumber, newQuantity) ==
  [i \in 1..Len(prev) |-> [prev[i] EXCEPT !.quantityOnHand = newQuantity]]

\* prev.map(part => part.partNumber === partNumber
\*                    ? { ...part, quantityOnHand: newQuantity } : part)
MapQuantity(prev, partNumber, newQuantity) ==
  [i \in 1..Len(prev) |->
     IF prev[i].partNumber = partNumber
     THEN [prev[i] EXCEPT !.quantityOnHand = newQuantity]
     ELSE prev[i]]

\* Variant of MapOrder that patches: a field the new record does not carry is
\* kept from the old one ({ ...ro, ...updatedRO }).
MapOrderPatching(prev, updatedRO) ==
  [i \in 1..Len(prev) |->
     IF prev[i].id = updatedRO.id
     THEN [updatedRO EXCEPT !.technicianId =
                              IF @ = Absent THEN prev[i].technicianId ELSE @]
     ELSE prev[i]]

\* prev.map(ro => ro.id === updatedRO.id ? updatedRO : ro)
MapOrder(prev, updatedRO) ==
  [i \in 1..Len(prev) |-> IF prev[i].id = updatedRO.id THEN updatedRO ELSE prev[i]]

\* Variant of ShouldAlert that misses the boundary (newQuantity < reorderPoint).
ShouldAlertBelowOnly(newQuantity, reorderPoint) == newQuantity < reorderPoint

\* newQuantity <= partToUpdate.reorderPoint
ShouldAlert(newQuantity, reorderPoint) == newQuantity <= reorderPoint

\* `alert-${Date.now()}`
AlertId(t) == << "alert-", t >>

\* new InventoryAlert: { ...alert, id: `alert-${Date.now()}`, timestamp: Date.now() }
NewAlert(alert, t) ==
  [ id |-> AlertId(t), partNumber |-> alert.partNumber, message |-> alert.message,
    roId |-> alert.roId, reason |-> alert.reason, timestamp |-> t ]

\* Variant of PrependAlert that keeps one alert per part, order and reason.
PrependAlertOnce(prev, alert, t) ==
  IF \E i \in 1..Len(prev) :
       /\ prev[i].partNumber = alert.partNumber
       /\ prev[i].roId = alert.roId
       /\ prev[i].reason = alert.reason
  THEN prev
  ELSE << NewAlert(alert, t) >> \o prev

\* Variant of PrependAlert that puts the new alert last ([...prev, newAlert]).
AppendAlert(prev, alert, t) == Append(prev, NewAlert(alert, t))

\* addInventoryAlert: the log after [newAlert, ...prev].
PrependAlert(prev, alert, t) == << NewAlert(alert, t) >> \o prev

\* Calls of the remote store adapter.
SelectCall(table) ==
  [table |-> table, op |-> "select", payload |-> [columns |-> "*"], key |-> << >>]
InsertOrderCall(newRO) ==
  [table |-> "repair_orders", op |-> "insert", payload |-> toSnakeOrder(newRO), key |-> << >>]
UpdateOrderCall(updatedRO) ==
  [ table |-> "repair_orders", op |-> "update", payload |-> toSnakeOrder(updatedRO),
    key |-> << "id", updatedRO.id >> ]
UpdateInventoryCall(partNumber, newQuantity) ==
  [ table |-> "master_inventory", op |-> "update",
    payload |-> [quantity_on_hand |-> newQuantity],
    key |-> << "part_number", partNumber >> ]

\* Variant of Persist that does not test the mode (if (supabase) ...).
PersistInAnyMode(v, call) == IF supabase THEN << call >> ELSE << >>

\* if (!isDemoMode && supabase) { await supabase.from(...)... }: the calls issued.
Persist(v, call) == IF ~v.isDemoMode /\ supabase THEN << call >> ELSE << >>

\* updateInventory past its early return, for the part it found: the new
\* quantity, the cell update, the alert and the remote update.
updateInventoryOfPart(v, prevInventory, prevAlerts, t, partToUpdate, quantityChange, reason, roId) ==
  LET partNumber == partToUpdate.partNumber
      newQuantity == partToUpdate.quantityOnHand + quantityChange
  IN  [ inventory |-> MapQuantity(prevInventory, partNumber, newQuantity),
        alerts |->
          IF ShouldAlert(newQuantity, partToUpdate.reorderPoint)
          THEN PrependAlert(prevAlerts,
                            [ partNumber |-> partNumber,
                              message |-> << "Low stock: ", partToUpdate.description >>,
                              roId |-> roId, reason |-> reason ], t)
          ELSE prevAlerts,
        calls |-> Persist(v, UpdateInventoryCall(partNumber, newQuantity)) ]

\* Variant of updateInventoryEffect without the early return: a part that is
\* not found counts as a part with nothing on hand and no reorder point.
updateInventoryEffectUnguarded(v, prevInventory, prevAlerts, t, partNumber, quantityChange, reason, roId) ==
  updateInventoryOfPart(v, prevInventory, prevAlerts, t,
                        IF PartFound(v.masterInventory, partNumber)
                        THEN FindPart(v.masterInventory, partNumber)
                        ELSE Part(partNumber, "", 0, 0),
                        quantityChange, reason, roId)

\* The synchronous part of updateInventory, run in a render whose values are v,
\* on the cells prevInventory and prevAlerts at clock reading t.
updateInventoryEffect(v, prevInventory, prevAlerts, t, partNumber, quantityChange, reason, roId) ==
  IF ~PartFound(v.masterInventory, partNumber)
  THEN [inventory |-> prevInventory, alerts |-> prevAlerts, calls |-> << >>]
  ELSE updateInventoryOfPart(v, prevInventory, prevAlerts, t,
                             FindPart(v.masterInventory, partNumber),
                             quantityChange, reason, roId)

\* The part numbers the ledger follows.
StockedParts == PartNumbers \ {"UNKNOWN-PART"}

LedgerOf(inventory) ==
  [pn \in StockedParts |->
     IF PartFound(inventory, pn) THEN FindPart(inventory, pn).quantityOnHand ELSE 0]

NoOp ==
  [ op |-> "none", partNumber |-> NULL, quantityChange |-> 0, roId |-> NULL,
    reason |-> NULL, ro |-> Order(NULL, NULL, NULL) ]

(* ------------------------------------------------------------------ *)
(* Initial state                                                       *)
(* ------------------------------------------------------------------ *)

Init ==
  /\ role = SERVICE_MANAGER
  /\ repairOrders = << >>
  /\ masterInventory = << >>
  /\ inventoryAlerts = << >>
  /\ isDemoMode = FALSE
  /\ isLoading = TRUE
  /\ error = NULL
  /\ view = [ role |-> SERVICE_MANAGER, masterInventory |-> << >>, isDemoMode |-> FALSE,
              isLoading |-> TRUE, error |-> NULL ]
  /\ effectDep = "unmounted"
  /\ pc = "idle"
  /\ isSupabaseConfigured \in BOOLEAN
  /\ supabase \in BOOLEAN
  /\ now = 0
  /\ remoteCalls = << >>
  /\ nOps = 0
  /\ lastOp = NoOp
  /\ ledger = LedgerOf(<< >>)
  /\ remote = [repair_orders |-> SeedOrders, master_inventory |-> SeedInventory]
  /\ outstanding = {}
  /\ failedWrites = {}

(* ------------------------------------------------------------------ *)
(* Rendering and bootstrap                                             *)
(* ------------------------------------------------------------------ *)

DepOf(b) == IF b THEN "true" ELSE "false"

\* The [isDemoMode] effect has run for the committed render.
EffectsFlushed == effectDep = DepOf(view.isDemoMode)

\* Variant of AppVisible without the unconfigured screen (lines 180-200).
AppVisibleWhenUnconfigured == ~view.isLoading

\* Variant of AppVisible without the loading screen (lines 166-178).
AppVisibleWhileLoading == view.error # SUPABASE_UNCONFIGURED

\* Neither the loading screen nor the unconfigured screen is shown.
AppVisible == ~view.isLoading /\ view.error # SUPABASE_UNCONFIGURED

\* React commits a render of the current cells; handlers now close over them.
Render ==
  /\ EffectsFlushed
  /\ view # Snapshot
  /\ view' = Snapshot
  /\ UNCHANGED << cells, effectDep, pc, isSupabaseConfigured, supabase, now, remoteCalls,
                  nOps, lastOp, ledger, store >>

\* useEffect(..., [isDemoMode]) with the synchronous part of fetchInitialData.
RunEffect ==
  /\ ~EffectsFlushed
  /\ effectDep' = DepOf(view.isDemoMode)
  /\ IF view.isDemoMode
     THEN /\ isLoading' = FALSE
          /\ error' = NULL
          /\ UNCHANGED << pc, remoteCalls >>
     ELSE IF ~isSupabaseConfigured \/ ~supabase
     THEN /\ error' = SUPABASE_UNCONFIGURED
          /\ isLoading' = FALSE
          /\ UNCHANGED << pc, remoteCalls >>
     ELSE /\ isLoading' = TRUE
          /\ error' = NULL
          /\ remoteCalls' = Append(remoteCalls, SelectCall("repair_orders"))
          /\ pc' = "readRO"
  /\ UNCHANGED << role, repairOrders, masterInventory, inventoryAlerts, isDemoMode, view,
                  isSupabaseConfigured, supabase, now, nOps, lastOp, ledger, store >>

\* Variant of ErrorMessage whose fallback is the unconfigured marker.
ErrorMessageAsUnconfigured(outcome) ==
  IF outcome = "error" THEN "fetch failed" ELSE SUPABASE_UNCONFIGURED

\* error.message || "Uplink to Command Database failed."
ErrorMessage(outcome) == IF outcome = "error" THEN "fetch failed" ELSE UplinkFailed

\* Variant of OrdersReadReturns with setIsLoading(false) as the last statement
\* of the try block instead of the finally block: a failed read leaves it out.
OrdersReadReturnsWithoutFinally(outcome) ==
  /\ pc = "readRO"
  /\ IF outcome = "ok"
     THEN /\ repairOrders' = [i \in 1..Len(remote.repair_orders) |->
                                toCamelOrder(remote.repair_orders[i])]
          /\ remoteCalls' = Append(remoteCalls, SelectCall("master_inventory"))
          /\ pc' = "readInv"
          /\ UNCHANGED << error, isLoading >>
     ELSE /\ error' = ErrorMessage(outcome)
          /\ pc' = "idle"
          /\ UNCHANGED << repairOrders, remoteCalls, isLoading >>
  /\ UNCHANGED << role, masterInventory, inventoryAlerts, isDemoMode, view, effectDep,
                  isSupabaseConfigured, supabase, now, nOps, lastOp, ledger, store >>

\* supabase.from('repair_orders').select('*') returns.
OrdersReadReturns(outcome) ==
  /\ pc = "readRO"
  /\ IF outcome = "ok"
     THEN /\ repairOrders' = [i \in 1..Len(remote.repair_orders) |->
                                toCamelOrder(remote.repair_orders[i])]
          /\ remoteCalls' = Append(remoteCalls, SelectCall("master_inventory"))
          /\ pc' = "readInv"
          /\ UNCHANGED << error, isLoading >>
     ELSE /\ error' = ErrorMessage(outcome)
          /\ isLoading' = FALSE
          /\ pc' = "idle"
          /\ UNCHANGED << repairOrders, remoteCalls >>
  /\ UNCHANGED << role, masterInventory, inventoryAlerts, isDemoMode, view, effectDep,
                  isSupabaseConfigured, supabase, now, nOps, lastOp, ledger, store >>

\* supabase.from('master_inventory').select('*') returns.
InventoryReadReturns(outcome) ==
  /\ pc = "readInv"
  /\ IF outcome = "ok"
     THEN /\ masterInventory' = [i \in 1..Len(remote.master_inventory) |->
                                   toCamelPart(remote.master_inventory[i])]
          /\ ledger' = LedgerOf(masterInventory')
          /\ UNCHANGED error
     ELSE /\ error' = ErrorMessage(outcome)
          /\ UNCHANGED << masterInventory, ledger >>
  /\ isLoading' = FALSE
  /\ pc' = "idle"
  /\ UNCHANGED << role, repairOrders, inventoryAlerts, isDemoMode, view, effectDep,
                  isSupabaseConfigured, supabase, now, remoteCalls, nOps, lastOp, store >>

\* Variant of LaunchSimulationMode offered on every error (if (error) ...).
LaunchSimulationModeOnAnyError ==
  /\ EffectsFlushed
  /\ ~view.isLoading
  /\ view.error # NULL
  /\ ~isDemoMode
  /\ isDemoMode' = TRUE
  /\ view' = [Snapshot EXCEPT !.isDemoMode = TRUE]
  /\ UNCHANGED << role, repairOrders, masterInventory, inventoryAlerts, isLoading, error,
                  effectDep, pc, isSupabaseConfigured, supabase, now, remoteCalls,
                  nOps, lastOp, ledger, store >>

\* "Launch Simulation Mode": a click calls setIsDemoMode(true) and React renders
\* again; the [isDemoMode] effect is then due.
LaunchSimulationMode ==
  /\ EffectsFlushed
  /\ ~view.isLoading
  /\ view.error = SUPABASE_UNCONFIGURED
  /\ ~isDemoMode
  /\ isDemoMode' = TRUE
  /\ view' = [Snapshot EXCEPT !.isDemoMode = TRUE]
  /\ UNCHANGED << role, repairOrders, masterInventory, inventoryAlerts, isLoading, error,
                  effectDep, pc, isSupabaseConfigured, supabase, now, remoteCalls,
                  nOps, lastOp, ledger, store >>

\* "Retry Handshake": window.location.reload() starts the session again.
RetryHandshake ==
  /\ EffectsFlushed
  /\ ~view.isLoading
  /\ view.error = SUPABASE_UNCONFIGURED
  /\ role' = SERVICE_MANAGER
  /\ repairOrders' = << >>
  /\ masterInventory' = << >>
  /\ inventoryAlerts' = << >>
  /\ isDemoMode' = FALSE
  /\ isLoading' = TRUE
  /\ error' = NULL
  /\ view' = [ role |-> SERVICE_MANAGER, masterInventory |-> << >>, isDemoMode |-> FALSE,
               isLoading |-> TRUE, error |-> NULL ]
  /\ effectDep' = "unmounted"
  /\ pc' = "idle"
  /\ remoteCalls' = << >>
  /\ nOps' = 0
  /\ lastOp' = NoOp
  /\ ledger' = LedgerOf(<< >>)
  /\ outstanding' = {}
  /\ failedWrites' = {}
  /\ UNCHANGED << isSupabaseConfigured, supabase, now, remote >>

\* Date.now(): a reading is never before the last one, and the same millisecond
\* may be read twice.
DateNow == {t \in now..(now + 1) : t <= MaxClock}

\* The role bar: a click calls setRole(roleKey) and React renders again.
SetRole(roleKey) ==
  /\ EffectsFlushed
  /\ AppVisible
  /\ roleKey # role
  /\ role' = roleKey
  /\ view' = [Snapshot EXCEPT !.role = roleKey]
  /\ UNCHANGED << repairOrders, masterInventory, inventoryAlerts, isDemoMode, isLoading,
                  error, effectDep, pc, isSupabaseConfigured, supabase, now,
                  remoteCalls, nOps, lastOp, ledger, store >>

(* ------------------------------------------------------------------ *)
(* Mutation entry points handed to the role pages                      *)
(* ------------------------------------------------------------------ *)

\* Variant of CanCall that waits for the writes: no entry point is offered
\* while a write is in flight or after one failed.
CanCallWhenSettled(roles) ==
  /\ EffectsFlushed
  /\ AppVisible
  /\ view.role \in roles
  /\ nOps < MaxOps
  /\ outstanding = {}
  /\ failedWrites = {}

\* A page shown for one of roles calls a prop of the committed render.
CanCall(roles) ==
  /\ EffectsFlushed
  /\ AppVisible
  /\ view.role \in roles
  /\ nOps < MaxOps

\* Alerts the parts page raises through its addInventoryAlert prop.
AlertInputs ==
  { [ partNumber |-> "PRP-002", message |-> << "Special order: ", "Propeller" >>,
      roId |-> "RO-2", reason |-> "install" ] }

\* The places in remoteCalls the calls issued by this step take.
Issued(calls) == (Len(remoteCalls) + 1)..(Len(remoteCalls) + Len(calls))

addRO(newRO) ==
  /\ CanCall({SERVICE_MANAGER})
  /\ repairOrders' = Append(repairOrders, newRO)
  /\ remoteCalls' = remoteCalls \o Persist(view, InsertOrderCall(newRO))
  /\ outstanding' = outstanding \cup Issued(Persist(view, InsertOrderCall(newRO)))
  /\ nOps' = nOps + 1
  /\ lastOp' = [NoOp EXCEPT !.op = "addRO", !.ro = newRO]
  /\ UNCHANGED << role, masterInventory, inventoryAlerts, isDemoMode, isLoading, error,
                  view, effectDep, pc, isSupabaseConfigured, supabase, now, ledger,
                  remote, failedWrites >>

updateRO(updatedRO) ==
  /\ CanCall({SERVICE_MANAGER, PARTS_MANAGER})
  /\ repairOrders' = MapOrder(repairOrders, updatedRO)
  /\ remoteCalls' = remoteCalls \o Persist(view, UpdateOrderCall(updatedRO))
  /\ outstanding' = outstanding \cup Issued(Persist(view, UpdateOrderCall(updatedRO)))
  /\ nOps' = nOps + 1
  /\ lastOp' = [NoOp EXCEPT !.op = "updateRO", !.ro = updatedRO]
  /\ UNCHANGED << role, masterInventory, inventoryAlerts, isDemoMode, isLoading, error,
                  view, effectDep, pc, isSupabaseConfigured, supabase, now, ledger,
                  remote, failedWrites >>

updateInventory(partNumber, quantityChange, reason, roId) ==
  /\ CanCall({PARTS_MANAGER})
  /\ \E t \in DateNow :
       LET r == updateInventoryEffect(view, masterInventory, inventoryAlerts, t,
                                      partNumber, quantityChange, reason, roId)
       IN  /\ masterInventory' = r.inventory
           /\ inventoryAlerts' = r.alerts
           /\ remoteCalls' = remoteCalls \o r.calls
           /\ outstanding' = outstanding \cup Issued(r.calls)
           /\ now' = IF r.alerts = inventoryAlerts THEN now ELSE t
  /\ ledger' = IF partNumber \in StockedParts /\ PartFound(masterInventory, partNumber)
               THEN [ledger EXCEPT ![partNumber] = @ + quantityChange]
               ELSE ledger
  /\ nOps' = nOps + 1
  /\ lastOp' = [NoOp EXCEPT !.op = "updateInventory", !.partNumber = partNumber,
                            !.quantityChange = quantityChange, !.roId = roId,
                            !.reason = reason]
  /\ UNCHANGED << role, repairOrders, isDemoMode, isLoading, error, view, effectDep, pc,
                  isSupabaseConfigured, supabase, remote, failedWrites >>

addInventoryAlert(alert) ==
  /\ CanCall({PARTS_MANAGER})
  /\ \E t \in DateNow :
       /\ inventoryAlerts' = PrependAlert(inventoryAlerts, alert, t)
       /\ now' = t
  /\ nOps' = nOps + 1
  /\ lastOp' = [NoOp EXCEPT !.op = "addInventoryAlert", !.partNumber = alert.partNumber,
                            !.roId = alert.roId, !.reason = alert.reason]
  /\ UNCHANGED << role, repairOrders, masterInventory, isDemoMode, isLoading, error, view,
                  effectDep, pc, isSupabaseConfigured, supabase, remoteCalls, ledger, store >>

\* The inventory page's setInventory prop is the raw setMasterInventory.
setInventory(inventory) ==
  /\ CanCall({INVENTORY_MANAGER})
  /\ masterInventory' = inventory
  /\ ledger' = LedgerOf(inventory)
  /\ nOps' = nOps + 1
  /\ lastOp' = [NoOp EXCEPT !.op = "setInventory"]
  /\ UNCHANGED << role, repairOrders, inventoryAlerts, isDemoMode, isLoading, error, view,
                  effectDep, pc, isSupabaseConfigured, supabase, now, remoteCalls, store >>

(* ------------------------------------------------------------------ *)
(* The remote store and the writes travelling to it                    *)
(* ------------------------------------------------------------------ *)

\* Outcomes of an insert or update the adapter issued.
WriteOutcomes == {"ok", "error"}

\* .eq(column, value)
KeyMatches(row, key) == row[key[1]] = key[2]

\* An update sets the columns its payload carries.
MergeRow(row, payload) ==
  [column \in DOMAIN row |-> IF column \in DOMAIN payload THEN payload[column] ELSE row[column]]

\* update-one by primary key; no row is touched when none has the key.
UpdateRows(rows, key, payload) ==
  [i \in 1..Len(rows) |-> IF KeyMatches(rows[i], key) THEN MergeRow(rows[i], payload) ELSE rows[i]]

\* insert-one: the store refuses a second row with a primary key it holds.
InsertRefused(tables, call) ==
  /\ call.op = "insert"
  /\ \E i \in 1..Len(tables[call.table]) : tables[call.table][i].id = call.payload.id

\* The tables after the store has applied a write.
ApplyWrite(tables, call) ==
  IF call.op = "insert"
  THEN [tables EXCEPT ![call.table] = Append(@, call.payload)]
  ELSE [tables EXCEPT ![call.table] = UpdateRows(@, call.key, call.payload)]

\* The awaited insert or update of remoteCalls[i] settles.  Nothing follows the
\* await in addRO, updateRO and updateInventory, and its result is not read.
RemoteWriteSettles(i, outcome) ==
  /\ i \in outstanding
  /\ outcome = "ok" => ~InsertRefused(remote, remoteCalls[i])
  /\ outstanding' = outstanding \ {i}
  /\ IF outcome = "ok"
     THEN /\ remote' = ApplyWrite(remote, remoteCalls[i])
          /\ UNCHANGED failedWrites
     ELSE /\ failedWrites' = failedWrites \cup {i}
          /\ UNCHANGED remote
  /\ UNCHANGED << cells, view, effectDep, pc, isSupabaseConfigured, supabase, now,
                  remoteCalls, nOps, lastOp, ledger >>

(* ------------------------------------------------------------------ *)
(* Specification                                                       *)
(* ------------------------------------------------------------------ *)

Next ==
  \/ Render
  \/ RunEffect
  \/ \E outcome \in ReadOutcomes : OrdersReadReturns(outcome)
  \/ \E outcome \in ReadOutcomes : InventoryReadReturns(outcome)
  \/ LaunchSimulationMode
  \/ RetryHandshake
  \/ \E roleKey \in UserRole : SetRole(roleKey)
  \/ \E newRO \in OrderInputs : addRO(newRO)
  \/ \E updatedRO \in OrderInputs : updateRO(updatedRO)
  \/ \E partNumber \in PartNumbers, quantityChange \in Deltas,
        reason \in Reasons, roId \in OrderIds :
       updateInventory(partNumber, quantityChange, reason, roId)
  \/ \E alert \in AlertInputs : addInventoryAlert(alert)
  \/ \E inventory \in InventoryInputs : setInventory(inventory)

\* The local state of the session.  No step of Next reads the remote store
\* after a write was issued or the places of the writes in flight, so the
\* writes stay in flight here; SyncSpec lets them settle.
Spec == Init /\ [][Next]_vars

\* A session of a configured store.
SyncInit == Init /\ isSupabaseConfigured /\ supabase

\* The connected session with its remote store: the bootstrap, the three
\* mirrored mutations and the settling of their writes, in any order.
SyncNext ==
  \/ Render
  \/ RunEffect
  \/ \E outcome \in ReadOutcomes : OrdersReadReturns(outcome)
  \/ \E outcome \in ReadOutcomes : InventoryReadReturns(outcome)
  \/ \E roleKey \in UserRole : SetRole(roleKey)
  \/ nOps < MaxSyncOps /\ \E newRO \in OrderInputs : addRO(newRO)
  \/ nOps < MaxSyncOps /\ \E updatedRO \in OrderInputs : updateRO(updatedRO)
  \/ /\ nOps < MaxSyncOps
     /\ \E partNumber \in PartNumbers, quantityChange \in Deltas,
           reason \in Reasons, roId \in OrderIds :
          updateInventory(partNumber, quantityChange, reason, roId)
  \/ \E i \in 1..Len(remoteCalls), outcome \in WriteOutcomes : RemoteWriteSettles(i, outcome)

SyncSpec == SyncInit /\ [][SyncNext]_vars

(* ------------------------------------------------------------------ *)
(* Properties                                                          *)
(* ------------------------------------------------------------------ *)

Quantity(inventory, partNumber) == FindPart(inventory, partNumber).quantityOnHand

\* This step is a call of the named entry point.
Called(op) == nOps' = nOps + 1 /\ lastOp'.op = op

\* This step is updateInventory on a part the local inventory holds.
UpdateInventoryOnPart ==
  Called("updateInventory") /\ PartFound(masterInventory, lastOp'.partNumber)

\* C1: after any sequence of updateInventory calls on a part of the local
\* inventory, the part's local quantityOnHand is the quantity it started from
\* plus the sum of the deltas (the ledger): no clamping, no lost update, also
\* for calls made back-to-back before the view has refreshed.
C1_QuantityIsSumOfDeltas ==
  \A pn \in StockedParts :
    PartFound(masterInventory, pn) => Quantity(masterInventory, pn) = ledger[pn]

\* C2: an updateInventory call on an existing part adds an alert to the log if
\* and only if the quantity the call leaves in local state is at or below the
\* part's reorderPoint; it adds none when that quantity is above it.
C2_AlertIffAtOrBelowReorderPoint ==
  [][ UpdateInventoryOnPart =>
        LET part == FindPart(masterInventory', lastOp'.partNumber)
        IN  /\ Len(inventoryAlerts') \in {Len(inventoryAlerts), Len(inventoryAlerts) + 1}
            /\ (Len(inventoryAlerts') = Len(inventoryAlerts) + 1)
                 <=> (part.quantityOnHand <= part.reorderPoint)
    ]_vars

\* C2 witness: a consumption has left a part exactly at its reorder point and
\* the log holds the one alert raised for it.
C2_Witness ==
  /\ lastOp.op = "updateInventory"
  /\ lastOp.quantityChange < 0
  /\ PartFound(masterInventory, lastOp.partNumber)
  /\ LET part == FindPart(masterInventory, lastOp.partNumber)
     IN  part.quantityOnHand = part.reorderPoint
  /\ Len(inventoryAlerts) = 1
  /\ inventoryAlerts[1].partNumber = lastOp.partNumber

\* C3: the quantity an updateInventory call compares against reorderPoint is
\* the one local state holds for the part once the call's mutation is applied,
\* and it is not derived from a stale read: the quantity the call reads is the
\* one local state holds when the call is made.
C3_DecisionOnPostMutationQuantity ==
  [][ UpdateInventoryOnPart =>
        LET pn == lastOp'.partNumber
            read == Quantity(view.masterInventory, pn)
        IN  /\ read = Quantity(masterInventory, pn)
            /\ read + lastOp'.quantityChange = Quantity(masterInventory', pn)
    ]_vars

\* C4: there is no deduplication: every updateInventory call that leaves the
\* part at or below its reorderPoint makes the alert log one longer, whatever
\* the log already holds, and the new alert carries the call's partNumber,
\* roId and reason.
C4_NoDeduplication ==
  [][ ( /\ UpdateInventoryOnPart
        /\ LET part == FindPart(masterInventory', lastOp'.partNumber)
           IN  part.quantityOnHand <= part.reorderPoint )
      => /\ Len(inventoryAlerts') = Len(inventoryAlerts) + 1
         /\ Head(inventoryAlerts').partNumber = lastOp'.partNumber
         /\ Head(inventoryAlerts').roId = lastOp'.roId
         /\ Head(inventoryAlerts').reason = lastOp'.reason
    ]_vars

\* C4 witness: the same qualifying consumption was made twice and the log
\* holds two alerts with the same partNumber, roId, reason and message.
C4_Witness ==
  /\ lastOp.op = "updateInventory"
  /\ Len(inventoryAlerts) >= 2
  /\ inventoryAlerts[1].partNumber = lastOp.partNumber
  /\ inventoryAlerts[2].partNumber = inventoryAlerts[1].partNumber
  /\ inventoryAlerts[2].roId = inventoryAlerts[1].roId
  /\ inventoryAlerts[2].reason = inventoryAlerts[1].reason
  /\ inventoryAlerts[2].message = inventoryAlerts[1].message

\* C5: the alerts of the log have pairwise distinct ids, also when two of them
\* were created at the same clock reading.
C5_AlertIdsDistinct ==
  \A i, j \in 1..Len(inventoryAlerts) :
    i # j => inventoryAlerts[i].id # inventoryAlerts[j].id

\* C6: the alert log is append-only and newest-first: a step either leaves the
\* log as it is or puts one new alert at its head, in front of the alerts it
\* held, which stay unchanged and in order; no alert is older than one behind
\* which it stands.
C6_AppendOnlyNewestFirst ==
  [][ /\ \/ inventoryAlerts' = inventoryAlerts
         \/ /\ Len(inventoryAlerts') = Len(inventoryAlerts) + 1
            /\ Tail(inventoryAlerts') = inventoryAlerts
      /\ \A i, j \in 1..Len(inventoryAlerts') :
           i < j => inventoryAlerts'[i].timestamp >= inventoryAlerts'[j].timestamp
    ]_vars

\* C6 witness: the log holds an alert in front of an older one.
C6_Witness ==
  /\ Len(inventoryAlerts) >= 2
  /\ inventoryAlerts[1].timestamp > inventoryAlerts[2].timestamp

\* C7: updateInventory with a partNumber the local inventory does not hold
\* changes neither the inventory nor the orders nor the alert log and issues
\* no remote call, in connected and in simulated mode.
C7_UnknownPartNoSideEffects ==
  [][ ( Called("updateInventory") /\ ~PartFound(masterInventory, lastOp'.partNumber) )
      => UNCHANGED << masterInventory, inventoryAlerts, repairOrders, remoteCalls >>
    ]_vars

\* C7 witness: in connected mode, with a stocked inventory, updateInventory was
\* called with a part number that is not in it.
C7_Witness ==
  /\ lastOp.op = "updateInventory"
  /\ ~PartFound(masterInventory, lastOp.partNumber)
  /\ Len(masterInventory) > 0
  /\ ~isDemoMode
  /\ supabase

\* C8: updateRO(r) puts r, whole, in the place of every local order whose id is
\* r.id and leaves every other order, the length and the ordering as they
\* were; when no local order has that id the collection is unchanged.
C8_UpdateReplacesWholeRecord ==
  [][ Called("updateRO") =>
        LET r == lastOp'.ro
        IN  /\ Len(repairOrders') = Len(repairOrders)
            /\ \A i \in 1..Len(repairOrders) :
                 /\ repairOrders[i].id = r.id => repairOrders'[i] = r
                 /\ repairOrders[i].id # r.id => repairOrders'[i] = repairOrders[i]
            /\ (\A i \in 1..Len(repairOrders) : repairOrders[i].id # r.id)
                 => repairOrders' = repairOrders
    ]_vars

\* C8 witness: an order that carried no technician replaced one, beside an
\* order with another id.
C8_Witness ==
  /\ lastOp.op = "updateRO"
  /\ lastOp.ro.technicianId = Absent
  /\ \E i \in 1..Len(repairOrders) : repairOrders[i] = lastOp.ro
  /\ \E i \in 1..Len(repairOrders) : repairOrders[i].id # lastOp.ro.id

\* C9: while the session is in simulated mode the remote store adapter has
\* been called zero times, whatever mutations were made.
C9_SimulatedModeNoRemoteCall == isDemoMode => Len(remoteCalls) = 0

\* C9 witness: in simulated mode, with a client object at hand, an order was
\* added and then updated.
C9_Witness ==
  /\ isDemoMode
  /\ supabase
  /\ lastOp.op = "updateRO"
  /\ \E i \in 1..Len(repairOrders) : repairOrders[i] = lastOp.ro

\* C10: in connected mode a mutation call changes the local orders or the
\* local inventory if and only if it issues exactly one adapter call, on the
\* resource that changed; a call that changes nothing locally issues none.
C10_OneRemoteCallPerLocalMutation ==
  [][ ( nOps' = nOps + 1 /\ ~isDemoMode ) =>
        LET issued == Len(remoteCalls') - Len(remoteCalls)
            call == remoteCalls'[Len(remoteCalls')]
        IN  /\ repairOrders' # repairOrders
              => issued = 1 /\ call.table = "repair_orders"
            /\ masterInventory' # masterInventory
              => issued = 1 /\ call.table = "master_inventory"
            /\ (repairOrders' = repairOrders /\ masterInventory' = masterInventory)
              => issued = 0
    ]_vars

\* This step is window.location.reload(): the session ends and a new one starts.
SessionRestarted == effectDep # "unmounted" /\ effectDep' = "unmounted"

\* A bulk read of the bootstrap has failed.
ReadFailed == error # NULL /\ error # SUPABASE_UNCONFIGURED

\* The remote store is unconfigured: fetchInitialData takes its first return.
Unconfigured == ~isSupabaseConfigured \/ ~supabase

\* The unconfigured screen is shown and its buttons can be clicked.
UnconfiguredScreen ==
  EffectsFlushed /\ ~view.isLoading /\ view.error = SUPABASE_UNCONFIGURED

\* C13: within a session the mode changes only from connected to simulated,
\* only while the unconfigured screen is shown and only by the click on its
\* launch button (a step that is no part of the bootstrap and mutates
\* nothing); a session in simulated mode stays in simulated mode.
C13_ModeChangesOnceToSimulated ==
  [][ ~SessionRestarted =>
        /\ isDemoMode => isDemoMode'
        /\ isDemoMode' # isDemoMode =>
             /\ UnconfiguredScreen
             /\ error = SUPABASE_UNCONFIGURED
             /\ pc = "idle"
             /\ UNCHANGED << repairOrders, masterInventory, inventoryAlerts, isLoading,
                             error, pc, remoteCalls, nOps >>
    ]_vars

\* C13 witness: a session that was switched to simulated mode has made a
\* mutation in it.
C13_Witness == isDemoMode /\ nOps > 0 /\ AppVisible

\* C14: after a bulk read of the bootstrap has failed, no mutation operation
\* is invoked in the session (it stays halted in its failure state until the
\* user retries or switches mode), and the session is not put in simulated
\* mode.
C14_ReadFailureHaltsSession == ReadFailed => nOps = 0 /\ ~isDemoMode

\* C15: with the remote store unconfigured, the bootstrap issues no remote
\* call and leaves the local collections empty; once it has run the session
\* shows SUPABASE_UNCONFIGURED and is not loading; no session whose store is
\* configured ever shows SUPABASE_UNCONFIGURED, whatever read fails; and on the
\* unconfigured screen both the retry and the switch to simulated mode are
\* enabled.
C15_UnconfiguredIsDistinguishable ==
  /\ (Unconfigured /\ ~isDemoMode) =>
       /\ Len(remoteCalls) = 0
       /\ repairOrders = << >>
       /\ masterInventory = << >>
       /\ pc = "idle"
       /\ error \in {NULL, SUPABASE_UNCONFIGURED}
  /\ (Unconfigured /\ ~isDemoMode /\ effectDep # "unmounted") =>
       error = SUPABASE_UNCONFIGURED /\ ~isLoading
  /\ ~Unconfigured => error # SUPABASE_UNCONFIGURED /\ view.error # SUPABASE_UNCONFIGURED
  /\ (UnconfiguredScreen /\ ~isDemoMode) =>
       ENABLED RetryHandshake /\ ENABLED LaunchSimulationMode

\* C15 witness: the unconfigured screen is shown in a session that has a
\* client object but no configuration.
C15_Witness == UnconfiguredScreen /\ ~isDemoMode /\ supabase /\ ~isSupabaseConfigured

\* An order that occupies its technician.
OccupiesTechnician(ro) ==
  ro.technicianId # Absent /\ ro.status \in {"ACTIVE", "READY_FOR_TECH"}

\* C16: no two orders of the local collection have the same technicianId
\* together with status ACTIVE or READY_FOR_TECH.
C16_OneActiveOrderPerTechnician ==
  \A i, j \in 1..Len(repairOrders) :
    ( /\ i # j
      /\ OccupiesTechnician(repairOrders[i])
      /\ OccupiesTechnician(repairOrders[j]) )
    => repairOrders[i].technicianId # repairOrders[j].technicianId

\* C17: the step that enters simulated mode finds and leaves the local orders
\* and inventory empty, no bulk read is in flight at or after it, and while the
\* session is in simulated mode the two collections change only in a step
\* that is a call of a mutation entry point.
C17_SimulatedModeStartsEmpty ==
  [][ /\ (~isDemoMode /\ isDemoMode') =>
           /\ repairOrders = << >> /\ masterInventory = << >>
           /\ repairOrders' = << >> /\ masterInventory' = << >>
      /\ isDemoMode' => pc' = "idle"
      /\ ( /\ isDemoMode /\ isDemoMode'
           /\ (repairOrders' # repairOrders \/ masterInventory' # masterInventory) )
         => /\ nOps' = nOps + 1
            /\ lastOp'.op \in {"addRO", "updateRO", "updateInventory", "setInventory"}
    ]_vars

\* C17 witness: a session in simulated mode holds orders and parts.
C17_Witness == isDemoMode /\ Len(repairOrders) > 0 /\ Len(masterInventory) > 0

\* The bulk reads of a table issued in the session.
Selects(table) ==
  {i \in 1..Len(remoteCalls) :
     remoteCalls[i].op = "select" /\ remoteCalls[i].table = table}

\* C18: a session reads each table in bulk at most once, and while the
\* bootstrap is reading, the loading screen is shown and no mutation has been
\* made: the rows read are stored before any local mutation.
C18_SeededOnceBeforeAnyMutation ==
  /\ Cardinality(Selects("repair_orders")) <= 1
  /\ Cardinality(Selects("master_inventory")) <= 1
  /\ pc # "idle" => nOps = 0 /\ isLoading /\ view.isLoading /\ ~AppVisible

\* C18 witness: a connected session that read both tables has made a mutation.
C18_Witness ==
  /\ ~isDemoMode
  /\ Cardinality(Selects("repair_orders")) = 1
  /\ Cardinality(Selects("master_inventory")) = 1
  /\ Len(masterInventory) > 0
  /\ nOps > 0

\* C19: updateInventory on a part of the local inventory keeps the length and
\* the order of the inventory, every other part, and the partNumber,
\* description and reorderPoint of the part, and leaves the orders alone; in
\* connected mode it issues one update of master_inventory that carries the
\* new quantity and nothing else, keyed by the part number.
C19_OnlyQuantityChanges ==
  [][ UpdateInventoryOnPart =>
        LET pn == lastOp'.partNumber
        IN  /\ Len(masterInventory') = Len(masterInventory)
            /\ \A i \in 1..Len(masterInventory) :
                 IF masterInventory[i].partNumber = pn
                 THEN /\ masterInventory'[i].partNumber = pn
                      /\ masterInventory'[i].description = masterInventory[i].description
                      /\ masterInventory'[i].reorderPoint = masterInventory[i].reorderPoint
                 ELSE masterInventory'[i] = masterInventory[i]
            /\ repairOrders' = repairOrders
            /\ (~isDemoMode /\ supabase) =>
                 /\ Len(remoteCalls') = Len(remoteCalls) + 1
                 /\ remoteCalls'[Len(remoteCalls')] =
                      [ table |-> "master_inventory", op |-> "update",
                        payload |-> [quantity_on_hand |-> Quantity(masterInventory', pn)],
                        key |-> << "part_number", pn >> ]
    ]_vars

\* C19 witness: in a connected session that holds an order and two parts, one
\* part's quantity was changed and the update was issued.
C19_Witness ==
  /\ lastOp.op = "updateInventory"
  /\ PartFound(masterInventory, lastOp.partNumber)
  /\ Len(masterInventory) = 2
  /\ Len(repairOrders) > 0
  /\ ~isDemoMode
  /\ remoteCalls[Len(remoteCalls)].table = "master_inventory"
  /\ remoteCalls[Len(remoteCalls)].op = "update"

\* React runs a due effect, and every bulk read that was issued returns.
FairSpec ==
  /\ Spec
  /\ WF_vars(RunEffect)
  /\ WF_vars(\E outcome \in ReadOutcomes : OrdersReadReturns(outcome))
  /\ WF_vars(\E outcome \in ReadOutcomes : InventoryReadReturns(outcome))

\* C20: the bootstrap terminates: whenever the session is loading (from its
\* mount, and from every start of fetchInitialData) it eventually is not,
\* whether the store is unconfigured, a read fails or both reads succeed.
C20_BootstrapTerminates == isLoading ~> ~isLoading

\* C20 witness: a bootstrap whose inventory read failed has left the loading
\* state.
C20_Witness ==
  /\ ~isLoading
  /\ pc = "idle"
  /\ ReadFailed
  /\ Cardinality(Selects("master_inventory")) = 1

\* This step issues an insert or update to the remote store.
WriteIssued ==
  /\ Len(remoteCalls') > Len(remoteCalls)
  /\ remoteCalls'[Len(remoteCalls')].op # "select"

\* The step is a call of one of the three mirrored entry points and the cell
\* holds the result of the call when the step ends.
LocalChangeApplied ==
  \/ Called("addRO") /\ repairOrders' = Append(repairOrders, lastOp'.ro)
  \/ Called("updateRO") /\ repairOrders' = MapOrder(repairOrders, lastOp'.ro)
  \/ /\ Called("updateInventory")
     /\ PartFound(masterInventory', lastOp'.partNumber)
     /\ Quantity(masterInventory', lastOp'.partNumber)
          = remoteCalls'[Len(remoteCalls')].payload.quantity_on_hand

\* In this step a write settles as failed.
WriteFails == \E i \in outstanding : i \in failedWrites'

\* Every entry point the shown page has can be called.
EntryPointsOpen ==
  EffectsFlushed /\ AppVisible /\ nOps < MaxOps =>
    /\ view.role = SERVICE_MANAGER => ENABLED (\E newRO \in OrderInputs : addRO(newRO))
    /\ view.role \in {SERVICE_MANAGER, PARTS_MANAGER} =>
         ENABLED (\E updatedRO \in OrderInputs : updateRO(updatedRO))
    /\ view.role = PARTS_MANAGER =>
         ENABLED (\E partNumber \in PartNumbers, quantityChange \in Deltas,
                     reason \in Reasons, roId \in OrderIds :
                    updateInventory(partNumber, quantityChange, reason, roId))

\* C11: a step that issues a write to the remote store is a call of addRO,
\* updateRO or updateInventory and ends with the local change in place; a
\* write that fails changes no cell (no rollback) and issues no call, and a
\* failed write is never in flight again (no retry); whatever writes are in
\* flight or have failed, the entry points of the shown page can be called.
C11_LocalFirstNoRollbackNoRetryNoBlocking ==
  /\ []EntryPointsOpen
  /\ [][ /\ WriteIssued => LocalChangeApplied
         /\ WriteFails => UNCHANGED cells /\ remoteCalls' = remoteCalls
         /\ failedWrites \subseteq failedWrites'
         /\ outstanding' \cap failedWrites = {} ]_vars

\* C11 witness: the insert of an added order failed, the order is still in the
\* local list and not in the remote store, and a call issued after it is in
\* flight.
C11_Witness ==
  \E i \in failedWrites :
    /\ remoteCalls[i].op = "insert"
    /\ \E k \in 1..Len(repairOrders) : toSnakeOrder(repairOrders[k]) = remoteCalls[i].payload
    /\ \A k \in 1..Len(remote.repair_orders) :
         remote.repair_orders[k].id # remoteCalls[i].payload.id
    /\ \E j \in outstanding : j > i

\* The remote store holds the local order, and under its id nothing else.
RemoteHoldsOrder(ro) ==
  /\ \E j \in 1..Len(remote.repair_orders) : remote.repair_orders[j].id = ro.id
  /\ \A j \in 1..Len(remote.repair_orders) :
       remote.repair_orders[j].id = ro.id => remote.repair_orders[j] = toSnakeOrder(ro)

\* The remote store holds the part with the local quantity.
RemoteHoldsQuantity(part) ==
  /\ \E j \in 1..Len(remote.master_inventory) :
       remote.master_inventory[j].part_number = part.partNumber
  /\ \A j \in 1..Len(remote.master_inventory) :
       remote.master_inventory[j].part_number = part.partNumber =>
         remote.master_inventory[j].quantity_on_hand = part.quantityOnHand

\* C12: in a connected session whose bootstrap read both tables, once every
\* issued write has settled and none failed, the remote store holds every
\* local order as the local list holds it and every local part with its local
\* quantity, in whatever order the writes settled.
C12_RemoteEqualsLocalOnceSettled ==
  ~isLoading /\ error = NULL /\ outstanding = {} /\ failedWrites = {} =>
    /\ \A k \in 1..Len(repairOrders) : RemoteHoldsOrder(repairOrders[k])
    /\ \A k \in 1..Len(masterInventory) : RemoteHoldsQuantity(masterInventory[k])
====
